---- MODULE Spec2Model ----
(***************************************************************************)
(* standardize_columns of src/App.py: the heuristic mapping of the columns *)
(* of an uploaded call-detail-record table onto canonical fields, the      *)
(* parsing and derivation of those fields, and the final row filter.       *)
(*                                                                         *)
(* A string is a sequence of one-character strings, so that strip, lower,  *)
(* upper, replace, substring search and the parsers are computed and not   *)
(* assumed.  A table is [n |-> number of rows, cols |-> sequence of        *)
(* [name, dtype, cells]]; labels may repeat, as in a pandas DataFrame.     *)
(* Library behaviour is that of pandas 2.x (astype(str) turns a missing    *)
(* value into the string "nan", which filter_data relies on, and the .str  *)
(* accessor refuses a float64 column).                                     *)
(***************************************************************************)
EXTENDS Integers, Sequences, FiniteSets, TLC

VARIABLES
  df,      \* the table handed to standardize_columns in this pass
  canon,   \* canon: canonical field name -> resolved column label
  out,     \* out: the table being built
  pc,      \* "start", "resolved", "normalized", "done" or "raised"
  pass     \* 1: the uploaded table; 2: the result of pass 1 fed back

vars == <<df, canon, out, pc, pass>>

(* ------------------------------ strings ------------------------------- *)

UpperChars ==
  <<"A","B","C","D","E","F","G","H","I","J","K","L","M",
    "N","O","P","Q","R","S","T","U","V","W","X","Y","Z">>

LowerChars ==
  <<"a","b","c","d","e","f","g","h","i","j","k","l","m",
    "n","o","p","q","r","s","t","u","v","w","x","y","z">>

DigitChars == <<"0","1","2","3","4","5","6","7","8","9">>

Whitespace == {" ", "\t"}

IndexOf(c, seq) ==
  IF \E i \in 1..Len(seq) : seq[i] = c
  THEN CHOOSE i \in 1..Len(seq) : seq[i] = c
  ELSE 0

lower_char(c) ==
  LET i == IndexOf(c, UpperChars) IN IF i = 0 THEN c ELSE LowerChars[i]

upper_char(c) ==
  LET i == IndexOf(c, LowerChars) IN IF i = 0 THEN c ELSE UpperChars[i]

(* str.lower() *)
lower(s) == [i \in 1..Len(s) |-> lower_char(s[i])]

(* str.upper() *)
upper(s) == [i \in 1..Len(s) |-> upper_char(s[i])]

(* str.strip(): leading and trailing whitespace removed *)
strip(s) ==
  LET keep == {i \in 1..Len(s) : s[i] \notin Whitespace}
  IN  IF keep = {} THEN <<>>
      ELSE LET a == CHOOSE i \in keep : \A j \in keep : i <= j
               b == CHOOSE i \in keep : \A j \in keep : j <= i
           IN  SubSeq(s, a, b)

(* str.replace(" ", "_") *)
replace_space(s) == [i \in 1..Len(s) |-> IF s[i] = " " THEN "_" ELSE s[i]]

(* sub in s *)
contains(s, sub) ==
  \E i \in 0..(Len(s) - Len(sub)) : SubSeq(s, i + 1, i + Len(sub)) = sub

IsDigits(s) == \A i \in 1..Len(s) : IndexOf(s[i], DigitChars) > 0

RECURSIVE int_of(_)
int_of(s) ==
  IF s = <<>> THEN 0
  ELSE int_of(SubSeq(s, 1, Len(s) - 1)) * 10 + (IndexOf(s[Len(s)], DigitChars) - 1)

RECURSIVE digits_of(_)
digits_of(n) ==
  IF n < 10 THEN <<DigitChars[n + 1]>>
  ELSE digits_of(n \div 10) \o <<DigitChars[(n % 10) + 1]>>

(* str(n) of an integer *)
str_of_int(n) == IF n < 0 THEN <<"-">> \o digits_of(0 - n) ELSE digits_of(n)

(* Canonical field names, as strings of characters. *)
K_start_time == <<"s","t","a","r","t","_","t","i","m","e">>
K_end_time == <<"e","n","d","_","t","i","m","e">>
K_duration_sec == <<"d","u","r","a","t","i","o","n","_","s","e","c">>
K_caller == <<"c","a","l","l","e","r">>
K_callee == <<"c","a","l","l","e","e">>
K_direction == <<"d","i","r","e","c","t","i","o","n">>
K_status == <<"s","t","a","t","u","s">>
K_operator == <<"o","p","e","r","a","t","o","r">>
K_country == <<"c","o","u","n","t","r","y">>
K_mcc == <<"m","c","c">>
K_mnc == <<"m","n","c">>
K_cell_id == <<"c","e","l","l","_","i","d">>
K_imsi == <<"i","m","s","i">>
K_imei == <<"i","m","e","i">>
K_setup_time_ms == <<"s","e","t","u","p","_","t","i","m","e","_","m","s">>
K_cost == <<"c","o","s","t">>

K_answered == <<"a","n","s","w","e","r","e","d">>
K_failed == <<"f","a","i","l","e","d">>
K_date == <<"d","a","t","e">>
K_hour == <<"h","o","u","r">>
K_weekday == <<"w","e","e","k","d","a","y">>

(* mapping_candidates: canonical field -> aliases in priority order. *)
mapping_candidates ==
  <<
    [k |-> K_start_time, candidates |-> <<
        <<"s","t","a","r","t","_","t","i","m","e">>,
        <<"c","a","l","l","_","s","t","a","r","t">>,
        <<"s","t","a","r","t">>,
        <<"t","i","m","e","s","t","a","m","p">>,
        <<"s","t","a","r","t","_","d","a","t","e","t","i","m","e">>,
        <<"s","e","t","u","p","_","t","i","m","e">>,
        <<"c","o","n","n","e","c","t","_","t","i","m","e">>,
        <<"e","v","e","n","t","_","t","i","m","e">> >>],
    [k |-> K_end_time, candidates |-> <<
        <<"e","n","d","_","t","i","m","e">>,
        <<"c","a","l","l","_","e","n","d">>,
        <<"e","n","d">>,
        <<"r","e","l","e","a","s","e","_","t","i","m","e">>,
        <<"d","i","s","c","o","n","n","e","c","t","_","t","i","m","e">> >>],
    [k |-> K_duration_sec, candidates |-> <<
        <<"d","u","r","a","t","i","o","n","_","s","e","c">>,
        <<"d","u","r","a","t","i","o","n">>,
        <<"c","a","l","l","_","d","u","r","a","t","i","o","n">>,
        <<"b","i","l","l","_","s","e","c">>,
        <<"b","i","l","l","a","b","l","e","_","s","e","c","o","n","d","s">>,
        <<"t","a","l","k","_","t","i","m","e">>,
        <<"c","o","n","v","e","r","s","a","t","i","o","n","_","t","i","m","e","_","s","e","c">> >>],
    [k |-> K_caller, candidates |-> <<
        <<"c","a","l","l","e","r">>,
        <<"c","a","l","l","i","n","g">>,
        <<"c","a","l","l","i","n","g","_","p","a","r","t","y">>,
        <<"a","_","n","u","m","b","e","r">>,
        <<"a","n","i">>,
        <<"m","s","i","s","d","n","_","a">> >>],
    [k |-> K_callee, candidates |-> <<
        <<"c","a","l","l","e","e">>,
        <<"c","a","l","l","e","d">>,
        <<"c","a","l","l","e","d","_","p","a","r","t","y">>,
        <<"b","_","n","u","m","b","e","r">>,
        <<"d","n","i","s">>,
        <<"m","s","i","s","d","n","_","b">> >>],
    [k |-> K_direction, candidates |-> <<
        <<"d","i","r","e","c","t","i","o","n">>,
        <<"c","a","l","l","_","d","i","r","e","c","t","i","o","n">>,
        <<"i","n","_","o","u","t">>,
        <<"i","n","b","o","u","n","d","_","o","u","t","b","o","u","n","d">> >>],
    [k |-> K_status, candidates |-> <<
        <<"s","t","a","t","u","s">>,
        <<"c","a","u","s","e">>,
        <<"r","e","l","e","a","s","e","_","c","a","u","s","e">>,
        <<"d","i","s","p","o","s","i","t","i","o","n">>,
        <<"r","e","s","u","l","t">>,
        <<"s","i","p","_","r","e","s","p","o","n","s","e">>,
        <<"q","8","5","0","_","c","a","u","s","e">> >>],
    [k |-> K_operator, candidates |-> <<
        <<"o","p","e","r","a","t","o","r">>,
        <<"c","a","r","r","i","e","r">>,
        <<"v","e","n","d","o","r">>,
        <<"t","r","u","n","k">>,
        <<"g","a","t","e","w","a","y">>,
        <<"r","o","u","t","e">> >>],
    [k |-> K_country, candidates |-> <<
        <<"c","o","u","n","t","r","y">>,
        <<"d","e","s","t","_","c","o","u","n","t","r","y">>,
        <<"d","e","s","t","i","n","a","t","i","o","n","_","c","o","u","n","t","r","y">> >>],
    [k |-> K_mcc, candidates |-> <<
        <<"m","c","c">> >>],
    [k |-> K_mnc, candidates |-> <<
        <<"m","n","c">> >>],
    [k |-> K_cell_id, candidates |-> <<
        <<"c","e","l","l","_","i","d">>,
        <<"c","e","l","l","i","d">>,
        <<"c","e","l","l">>,
        <<"l","a","c","_","c","e","l","l">> >>],
    [k |-> K_imsi, candidates |-> <<
        <<"i","m","s","i">> >>],
    [k |-> K_imei, candidates |-> <<
        <<"i","m","e","i">> >>],
    [k |-> K_setup_time_ms, candidates |-> <<
        <<"s","e","t","u","p","_","t","i","m","e","_","m","s">>,
        <<"p","o","s","t","_","d","i","a","l","_","d","e","l","a","y","_","m","s">>,
        <<"p","d","d","_","m","s">>,
        <<"r","i","n","g","_","t","i","m","e","_","m","s">> >>],
    [k |-> K_cost, candidates |-> <<
        <<"c","o","s","t">>,
        <<"c","h","a","r","g","e">>,
        <<"a","m","o","u","n","t">>,
        <<"r","e","v","e","n","u","e">> >>]
  >>

(* ------------------------------- cells -------------------------------- *)

(* A cell: NaN (also NaT and None), a string, a number, a timestamp in     *)
(* seconds since 1970-01-01, a boolean or a calendar date (day number).    *)
NaN     == [k |-> "nan", v |-> 0]
Str(s)  == [k |-> "str", v |-> s]
Num(x)  == [k |-> "num", v |-> x]
Time(t) == [k |-> "time", v |-> t]
Bool(b) == [k |-> "bool", v |-> b]
Date(d) == [k |-> "date", v |-> d]

(* Series.notna() of one cell *)
notna(c) == c.k # "nan"

IsLeap(y) == (y % 4 = 0 /\ y % 100 # 0) \/ y % 400 = 0

DaysInMonth(y, m) ==
  IF m = 2 THEN (IF IsLeap(y) THEN 29 ELSE 28)
  ELSE IF m \in {4, 6, 9, 11} THEN 30 ELSE 31

(* days from 1970-01-01 to the civil date y-m-d *)
DaysFromCivil(y, m, d) ==
  LET yy  == IF m <= 2 THEN y - 1 ELSE y
      era == yy \div 400
      yoe == yy - era * 400
      mp  == IF m > 2 THEN m - 3 ELSE m + 9
      doy == (153 * mp + 2) \div 5 + d - 1
      doe == yoe * 365 + yoe \div 4 - yoe \div 100 + doy
  IN  era * 146097 + doe - 719468

DateShape(s) ==
  /\ Len(s) >= 10
  /\ s[5] = "-" /\ s[8] = "-"
  /\ IsDigits(SubSeq(s, 1, 4)) /\ IsDigits(SubSeq(s, 6, 7)) /\ IsDigits(SubSeq(s, 9, 10))

ClockShape(s) ==
  /\ Len(s) = 19
  /\ s[11] \in {"T", " "} /\ s[14] = ":" /\ s[17] = ":"
  /\ IsDigits(SubSeq(s, 12, 13)) /\ IsDigits(SubSeq(s, 15, 16)) /\ IsDigits(SubSeq(s, 18, 19))

(* The timestamp parser on the ISO-8601 shapes YYYY-MM-DD and              *)
(* YYYY-MM-DD[T ]HH:MM:SS; anything else does not parse (errors="coerce"). *)
parse_datetime(s) ==
  IF ~ (DateShape(s) /\ (Len(s) = 10 \/ ClockShape(s))) THEN NaN
  ELSE LET y  == int_of(SubSeq(s, 1, 4))
           mo == int_of(SubSeq(s, 6, 7))
           d  == int_of(SubSeq(s, 9, 10))
           h  == IF Len(s) = 10 THEN 0 ELSE int_of(SubSeq(s, 12, 13))
           mi == IF Len(s) = 10 THEN 0 ELSE int_of(SubSeq(s, 15, 16))
           se == IF Len(s) = 10 THEN 0 ELSE int_of(SubSeq(s, 18, 19))
       IN  IF mo \in 1..12 /\ d >= 1 /\ d <= DaysInMonth(y, mo)
              /\ h < 24 /\ mi < 60 /\ se < 60
           THEN Time(DaysFromCivil(y, mo, d) * 86400 + h * 3600 + mi * 60 + se)
           ELSE NaN

(* pd.to_datetime(..., errors="coerce") of one cell; a number is a count   *)
(* of nanoseconds since the epoch (the sub-second part is not kept).       *)
to_datetime_cell(c) ==
  CASE c.k = "time" -> c
    [] c.k = "nan"  -> NaN
    [] c.k = "str"  -> parse_datetime(c.v)
    [] c.k = "num"  -> Time(c.v \div 1000000000)

(* pd.to_numeric(..., errors="coerce") of one cell *)
to_numeric_cell(c) ==
  CASE c.k = "num" -> c
    [] c.k = "nan" -> NaN
    [] c.k = "str" ->
         IF c.v # <<>> /\ IsDigits(c.v) THEN Num(int_of(c.v))
         ELSE IF Len(c.v) > 1 /\ c.v[1] = "-" /\ IsDigits(Tail(c.v))
              THEN Num(0 - int_of(Tail(c.v)))
              ELSE NaN

(* Series.astype(str) of one cell of a column *)
astype_str_cell(c, float) ==
  CASE c.k = "str" -> c
    [] c.k = "nan" -> Str(<<"n","a","n">>)
    [] c.k = "num" -> Str(IF float THEN str_of_int(c.v) \o <<".","0">>
                                   ELSE str_of_int(c.v))

(* Series.astype(str): the result has dtype object *)
astype_str(col) ==
  [i \in 1..Len(col.cells) |-> astype_str_cell(col.cells[i], col.dtype = "float64")]

to_datetime(cells) == [i \in 1..Len(cells) |-> to_datetime_cell(cells[i])]

to_numeric(cells) == [i \in 1..Len(cells) |-> to_numeric_cell(cells[i])]

(* the dtype pd.to_numeric gives: a numeric column keeps its own, parsed   *)
(* strings are int64 unless a missing value makes them float64             *)
numeric_dtype(col) ==
  IF col.dtype \in {"int64", "float64"} THEN col.dtype
  ELSE IF \E i \in 1..Len(col.cells) : ~ notna(to_numeric_cell(col.cells[i]))
       THEN "float64" ELSE "int64"

DayNames ==
  << <<"M","o","n","d","a","y">>, <<"T","u","e","s","d","a","y">>,
     <<"W","e","d","n","e","s","d","a","y">>, <<"T","h","u","r","s","d","a","y">>,
     <<"F","r","i","d","a","y">>, <<"S","a","t","u","r","d","a","y">>,
     <<"S","u","n","d","a","y">> >>

(* .dt.date, .dt.hour, .dt.day_name() of one timestamp cell *)
dt_date(c) == IF notna(c) THEN Date(c.v \div 86400) ELSE NaN

dt_hour(c) == IF notna(c) THEN Num((c.v % 86400) \div 3600) ELSE NaN

dt_day_name(c) ==
  IF notna(c) THEN Str(DayNames[(((c.v \div 86400) + 3) % 7) + 1]) ELSE NaN

(* ------------------------------- tables ------------------------------- *)

Labels(t) == {t.cols[i].name : i \in 1..Len(t.cols)}

(* how many columns carry the label *)
Count(t, name) == Cardinality({i \in 1..Len(t.cols) : t.cols[i].name = name})

(* t[name] where the label is unique: the column *)
Column(t, name) ==
  t.cols[CHOOSE i \in 1..Len(t.cols) : t.cols[i].name = name]

(* t[name] = cells: every column carrying the label is replaced, and a new *)
(* label is appended as the last column *)
SetColumn(t, name, dtype, cells) ==
  LET col == [name |-> name, dtype |-> dtype, cells |-> cells]
  IN  IF name \in Labels(t)
      THEN [t EXCEPT !.cols = [i \in 1..Len(t.cols) |->
                IF t.cols[i].name = name THEN col ELSE t.cols[i]]]
      ELSE [t EXCEPT !.cols = Append(t.cols, col)]

(* t[name] = scalar: np.nan gives a float64 column, pd.NaT a datetime one *)
SetScalar(t, name, dtype, c) == SetColumn(t, name, dtype, [i \in 1..t.n |-> c])


(* ------------------------- standardize_columns ------------------------ *)

(* c.strip().lower().replace(" ", "_") *)
normalize_name(c) == replace_space(lower(strip(c)))

(* df.rename(columns=col_map) *)
rename(t) ==
  [t EXCEPT !.cols = [i \in 1..Len(t.cols) |->
      [t.cols[i] EXCEPT !.name = normalize_name(t.cols[i].name)]]]

(* the alias loop without its break: the last candidate present wins *)
RECURSIVE scan_candidates_last(_, _)
scan_candidates_last(candidates, labels) ==
  IF candidates = <<>> THEN <<>>
  ELSE IF candidates[Len(candidates)] \in labels THEN <<candidates[Len(candidates)]>>
       ELSE scan_candidates_last(SubSeq(candidates, 1, Len(candidates) - 1), labels)

(* for cand in candidates: if cand in df.columns: ...; break               *)
(* <<cand>> for the first candidate that is a label, <<>> when none is     *)
RECURSIVE scan_candidates(_, _)
scan_candidates(candidates, labels) ==
  IF candidates = <<>> THEN <<>>
  ELSE IF Head(candidates) \in labels THEN <<Head(candidates)>>
       ELSE scan_candidates(Tail(candidates), labels)

(* the canon dictionary after the alias loop *)
resolve(t) ==
  LET hit(i) == scan_candidates(mapping_candidates[i].candidates, Labels(t))
      found  == {i \in 1..Len(mapping_candidates) : hit(i) # <<>>}
  IN  [k \in {mapping_candidates[i].k : i \in found} |->
         hit(CHOOSE i \in found : mapping_candidates[i].k = k)[1]]

(* The function's progress: the table built so far, the canon dictionary   *)
(* and whether an exception has left the function.                         *)
Raise(s) == [s EXCEPT !.raised = TRUE]

(* the next statement runs unless an exception has left the function *)
Then(s, stmt(_)) == IF s.raised THEN s ELSE stmt(s)

NotnaCount(cells) == Cardinality({i \in 1..Len(cells) : notna(cells[i])})

(* out[...].notna().any() *)
notna_any(cells) == \E i \in 1..Len(cells) : notna(cells[i])

(* the threshold test written >= 0.6 *)
at_least_threshold(try_col) ==
  Len(try_col) > 0 /\ NotnaCount(try_col) * 10 >= 6 * Len(try_col)

(* try_col.notna().mean() > 0.6; the mean of no values is NaN, which is    *)
(* not greater than anything                                               *)
above_threshold(try_col) ==
  Len(try_col) > 0 /\ NotnaCount(try_col) * 10 > 6 * Len(try_col)

(* any(s in c for s in ["time", "date"]) *)
time_like(c) ==
  contains(c, <<"t","i","m","e">>) \/ contains(c, <<"d","a","t","e">>)

(* dict store canon[k] = c *)
canon_put(cn, k, c) ==
  [x \in DOMAIN cn \cup {k} |-> IF x = k THEN c ELSE cn[x]]

(* the loop over out.columns that looks for a datetime column, from the    *)
(* i-th column on; pd.to_datetime of a repeated label (a DataFrame) raises *)
RECURSIVE infer_start(_, _)
infer_start(s, i) ==
  IF i > Len(s.out.cols)
  THEN [s EXCEPT !.out = SetScalar(s.out, K_start_time, "datetime64", NaN)]
  ELSE LET c == s.out.cols[i].name
       IN  IF ~ time_like(c) THEN infer_start(s, i + 1)
           ELSE IF Count(s.out, c) > 1 THEN Raise(s)
           ELSE LET try_col == to_datetime(Column(s.out, c).cells)
                IN  IF above_threshold(try_col)
                    THEN [s EXCEPT
                            !.out = SetColumn(s.out, K_start_time, "datetime64", try_col),
                            !.canon = canon_put(s.canon, K_start_time, c)]
                    ELSE infer_start(s, i + 1)

(* out[k] = pd.to_datetime(out[canon[k]], errors="coerce") *)
parse_time(s, k) ==
  IF Count(s.out, s.canon[k]) > 1 THEN Raise(s)
  ELSE [s EXCEPT !.out =
          SetColumn(s.out, k, "datetime64", to_datetime(Column(s.out, s.canon[k]).cells))]

parse_start(s) ==
  IF K_start_time \in DOMAIN s.canon THEN parse_time(s, K_start_time)
  ELSE infer_start(s, 1)

parse_end(s) ==
  IF K_end_time \in DOMAIN s.canon THEN parse_time(s, K_end_time)
  ELSE [s EXCEPT !.out = SetScalar(s.out, K_end_time, "datetime64", NaN)]

(* out[k] = pd.to_numeric(out[canon[k]], errors="coerce"); a repeated      *)
(* label hands pd.to_numeric a DataFrame, which raises TypeError           *)
parse_numeric(s, k) ==
  IF Count(s.out, s.canon[k]) > 1 THEN Raise(s)
  ELSE LET col == Column(s.out, s.canon[k])
       IN  [s EXCEPT !.out =
              SetColumn(s.out, k, numeric_dtype(col), to_numeric(col.cells))]

(* the difference taken as start - end *)
total_seconds_swapped(e, b) == IF notna(e) /\ notna(b) THEN Num(b.v - e.v) ELSE NaN

(* (end - start).dt.total_seconds() of one row *)
total_seconds(e, b) == IF notna(e) /\ notna(b) THEN Num(e.v - b.v) ELSE NaN

derive_duration(end_time, start_time) ==
  [i \in 1..Len(start_time) |-> total_seconds(end_time[i], start_time[i])]

duration(s) ==
  IF K_duration_sec \in DOMAIN s.canon THEN parse_numeric(s, K_duration_sec)
  ELSE LET end_time   == Column(s.out, K_end_time).cells
           start_time == Column(s.out, K_start_time).cells
       IN  IF notna_any(end_time) /\ notna_any(start_time)
           THEN [s EXCEPT !.out = SetColumn(s.out, K_duration_sec, "float64",
                                            derive_duration(end_time, start_time))]
           ELSE [s EXCEPT !.out = SetScalar(s.out, K_duration_sec, "float64", NaN)]

IdentityFields ==
  <<K_caller, K_callee, K_direction, K_status, K_operator, K_country,
    K_mcc, K_mnc, K_cell_id, K_imsi, K_imei>>

(* out[k] = out[canon[k]].astype(str), or np.nan.  Under a repeated label  *)
(* the right-hand side is a DataFrame: it is stored column by column when  *)
(* k is that label, and refused (ValueError) when k is a new label.        *)
identifier(s, k) ==
  IF k \notin DOMAIN s.canon
  THEN [s EXCEPT !.out = SetScalar(s.out, k, "float64", NaN)]
  ELSE LET src == s.canon[k]
       IN  IF Count(s.out, src) = 1
           THEN [s EXCEPT !.out =
                   SetColumn(s.out, k, "object", astype_str(Column(s.out, src)))]
           ELSE IF src # k THEN Raise(s)
           ELSE [s EXCEPT !.out.cols = [i \in 1..Len(s.out.cols) |->
                   IF s.out.cols[i].name = k
                   THEN [name |-> k, dtype |-> "object",
                         cells |-> astype_str(s.out.cols[i])]
                   ELSE s.out.cols[i]]]

RECURSIVE identifiers(_, _)
identifiers(s, i) ==
  IF i > Len(IdentityFields) \/ s.raised THEN s
  ELSE identifiers(identifier(s, IdentityFields[i]), i + 1)

metric(s, k) ==
  IF k \in DOMAIN s.canon THEN parse_numeric(s, k)
  ELSE [s EXCEPT !.out = SetScalar(s.out, k, "float64", NaN)]

metric_cost(s) == metric(s, K_cost)

metrics(s) == Then(metric(s, K_setup_time_ms), metric_cost)

(* status_upper.str.contains("ANSWER|OK|200", na=False) *)
is_answered(status_upper) ==
  \/ contains(status_upper, <<"A","N","S","W","E","R">>)
  \/ contains(status_upper, <<"O","K">>)
  \/ contains(status_upper, <<"2","0","0">>)

(* status_upper.str.contains("FAIL|BUSY|NO_ANSWER|486|480|503|CONGEST", na=False) *)
is_failed(status_upper) ==
  \/ contains(status_upper, <<"F","A","I","L">>)
  \/ contains(status_upper, <<"B","U","S","Y">>)
  \/ contains(status_upper, <<"N","O","_","A","N","S","W","E","R">>)
  \/ contains(status_upper, <<"4","8","6">>)
  \/ contains(status_upper, <<"4","8","0">>)
  \/ contains(status_upper, <<"5","0","3">>)
  \/ contains(status_upper, <<"C","O","N","G","E","S","T">>)

(* answered, failed, date, hour, weekday; out["status"] under a repeated   *)
(* label is a DataFrame, which has no .str                                 *)
derived(s) ==
  IF Count(s.out, K_status) > 1 THEN Raise(s)
  ELSE LET status_upper == [i \in 1..s.out.n |->
                              upper(astype_str(Column(s.out, K_status))[i].v)]
           start_time   == Column(s.out, K_start_time).cells
           o1 == SetColumn(s.out, K_answered, "bool",
                   [i \in 1..s.out.n |-> Bool(is_answered(status_upper[i]))])
           o2 == SetColumn(o1, K_failed, "bool",
                   [i \in 1..s.out.n |-> Bool(is_failed(status_upper[i]))])
           o3 == SetColumn(o2, K_date, "object",
                   [i \in 1..s.out.n |-> dt_date(start_time[i])])
           o4 == SetColumn(o3, K_hour, "float64",
                   [i \in 1..s.out.n |-> dt_hour(start_time[i])])
           o5 == SetColumn(o4, K_weekday, "object",
                   [i \in 1..s.out.n |-> dt_day_name(start_time[i])])
       IN  [s EXCEPT !.out = o5]

(* the synonyms replaced as patterns (regex=True) and not as whole values: *)
(* a value that begins with "in" or "out" has that part replaced           *)
replace_direction_regex(v) ==
  IF Len(v) >= 2 /\ SubSeq(v, 1, 2) = <<"i","n">>
  THEN <<"i","n","b","o","u","n","d">> \o SubSeq(v, 3, Len(v))
  ELSE IF Len(v) >= 3 /\ SubSeq(v, 1, 3) = <<"o","u","t">>
       THEN <<"o","u","t","b","o","u","n","d">> \o SubSeq(v, 4, Len(v))
       ELSE v

(* .replace({"in": "inbound", "out": "outbound", "incoming": "inbound",    *)
(*           "outgoing": "outbound"}) of one value: whole-value match      *)
replace_direction(v) ==
  CASE v = <<"i","n">> -> <<"i","n","b","o","u","n","d">>
    [] v = <<"o","u","t">> -> <<"o","u","t","b","o","u","n","d">>
    [] v = <<"i","n","c","o","m","i","n","g">> -> <<"i","n","b","o","u","n","d">>
    [] v = <<"o","u","t","g","o","i","n","g">> -> <<"o","u","t","b","o","u","n","d">>
    [] OTHER -> v

(* the replacement without .str.lower() *)
clean_direction_cell_no_lower(c) ==
  IF c.k = "str" THEN Str(replace_direction(c.v)) ELSE c

(* out["direction"].str.lower().replace({...}) of one cell *)
clean_direction_cell(c) ==
  IF c.k = "str" THEN Str(replace_direction(lower(c.v))) ELSE c

(* The .str accessor exists on a column of strings only: on the float64    *)
(* column that an unresolved direction leaves (np.nan), and on the         *)
(* DataFrame that a repeated label gives, it raises AttributeError.        *)
clean_direction(s) ==
  IF Count(s.out, K_direction) > 1 THEN Raise(s)
  ELSE LET col == Column(s.out, K_direction)
       IN  IF col.dtype # "object" THEN Raise(s)
           ELSE [s EXCEPT !.out = SetColumn(s.out, K_direction, "object",
                   [i \in 1..s.out.n |-> clean_direction_cell(col.cells[i])])]

all_identifiers(s) == identifiers(s, 1)

(* lines 61-116 in order *)
normalize(s0) ==
  Then(Then(Then(Then(Then(Then(parse_start(s0),
    parse_end), duration), all_identifiers), metrics), derived), clean_direction)

RECURSIVE select(_, _)
select(cells, mask) ==
  IF cells = <<>> THEN <<>>
  ELSE (IF Head(mask) THEN <<Head(cells)>> ELSE <<>>) \o select(Tail(cells), Tail(mask))

(* the filter with the mask inverted (isna for notna) *)
keep_missing(t) ==
  LET start_time == Column(t, K_start_time).cells
      mask == [i \in 1..t.n |-> ~ notna(start_time[i])]
  IN  [n |-> t.n - NotnaCount(start_time),
       cols |-> [i \in 1..Len(t.cols) |->
                   [t.cols[i] EXCEPT !.cells = select(t.cols[i].cells, mask)]]]

(* out[out["start_time"].notna()].copy() *)
keep_valid(t) ==
  LET start_time == Column(t, K_start_time).cells
      mask == [i \in 1..t.n |-> notna(start_time[i])]
  IN  [n |-> NotnaCount(start_time),
       cols |-> [i \in 1..Len(t.cols) |->
                   [t.cols[i] EXCEPT !.cells = select(t.cols[i].cells, mask)]]]


(* ------------------------------ actions ------------------------------- *)

EmptyTable == [n |-> 0, cols |-> <<>>]

(* lines 28-59: the labels are normalized, the alias loop fills canon and  *)
(* out starts as a copy of the renamed table                               *)
Resolve ==
  /\ pc = "start"
  /\ out' = rename(df)
  /\ canon' = resolve(rename(df))
  /\ pc' = "resolved"
  /\ UNCHANGED <<df, pass>>

(* lines 61-116: every field is computed, or an exception leaves the       *)
(* function and no table is returned                                       *)
Normalize ==
  /\ pc = "resolved"
  /\ LET s == normalize([raised |-> FALSE, out |-> out, canon |-> canon])
     IN  /\ pc' = IF s.raised THEN "raised" ELSE "normalized"
         /\ out' = IF s.raised THEN EmptyTable ELSE s.out
         /\ canon' = s.canon
  /\ UNCHANGED <<df, pass>>

(* lines 118-120: the rows without a start_time are dropped and the table  *)
(* is returned                                                             *)
KeepValid ==
  /\ pc = "normalized"
  /\ out' = keep_valid(out)
  /\ pc' = "done"
  /\ UNCHANGED <<df, canon, pass>>

(* the returned table is handed to standardize_columns once more, its      *)
(* labels taken as the raw columns                                         *)
Again ==
  /\ pc = "done" /\ pass = 1
  /\ df' = out
  /\ pass' = 2
  /\ pc' = "start"
  /\ out' = EmptyTable
  /\ canon' = <<>>

(* ------------------------------- inputs ------------------------------- *)

MaxRows == 2

MaxCols == 3

InferRows == 5

(* cell values; the timestamps of one column share one shape *)
T0 == Str(<<"2","0","2","4","-","0","1","-","0","1","T","0","0",":","0","0",":","0","0">>)  \* 2024-01-01T00:00:00
T150 == Str(<<"2","0","2","4","-","0","1","-","0","1","T","0","0",":","0","2",":","3","0">>)  \* 2024-01-01T00:02:30
TBefore == Str(<<"2","0","2","3","-","1","2","-","3","1","T","2","3",":","5","9",":","0","0">>)  \* 2023-12-31T23:59:00
DayOnly == Str(<<"2","0","2","4","-","0","1","-","0","2">>)  \* 2024-01-02
Junk == Str(<<"a","b","c">>)  \* abc

(* A column of an input family: its raw header, whether its cells are text *)
(* or numbers, and the values a cell may take.                              *)
TimeColumns ==
  << [name |-> <<"C","a","l","l"," ","S","t","a","r","t">>, kind |-> "text", dom |-> {T0, Junk, NaN}],
     [name |-> <<"e","n","d","_","t","i","m","e">>, kind |-> "text", dom |-> {T150, TBefore, NaN}],
     [name |-> <<"d","i","r","e","c","t","i","o","n">>, kind |-> "text", dom |-> {Str(<<"I","N">>)}] >>

DurationColumns ==
  << [name |-> <<"s","t","a","r","t","_","t","i","m","e">>, kind |-> "text", dom |-> {T0}],
     [name |-> <<"E","n","d">>, kind |-> "text", dom |-> {T150, NaN}],
     [name |-> <<"D","u","r","a","t","i","o","n">>, kind |-> "num", dom |-> {Num(150), Num(0 - 5), NaN}],
     [name |-> <<"d","i","r","e","c","t","i","o","n">>, kind |-> "text", dom |-> {Str(<<"o","u","t">>)}] >>

BillSecColumns ==
  << [name |-> <<"t","i","m","e","s","t","a","m","p">>, kind |-> "text", dom |-> {DayOnly, NaN}],
     [name |-> <<"b","i","l","l","_","s","e","c">>, kind |-> "text", dom |-> {Str(<<"1","5","0">>), Str(<<"-","5">>), Junk, NaN}],
     [name |-> <<"I","n"," ","O","u","t">>, kind |-> "text", dom |-> {Str(<<"O","u","t","g","o","i","n","g">>)}] >>

StatusColumns ==
  << [name |-> <<"s","t","a","r","t","_","t","i","m","e">>, kind |-> "text", dom |-> {T0}],
     [name |-> <<"d","i","r","e","c","t","i","o","n">>, kind |-> "text", dom |-> {Str(<<"i","n">>)}],
     [name |-> <<"s","t","a","t","u","s">>, kind |-> "text", dom |-> {Str(<<"A","N","S","W","E","R","E","D">>), Str(<<"N","O","_","A","N","S","W","E","R">>), Str(<<"2","0","0"," ","O","K">>), Str(<<"b","u","s","y">>), Str(<<"u","n","k","n","o","w","n">>), NaN}] >>

SipColumns ==
  << [name |-> <<"s","t","a","r","t","_","t","i","m","e">>, kind |-> "text", dom |-> {T0}],
     [name |-> <<"d","i","r","e","c","t","i","o","n">>, kind |-> "text", dom |-> {Str(<<"i","n">>)}],
     [name |-> <<"S","I","P"," ","R","e","s","p","o","n","s","e">>, kind |-> "num", dom |-> {Num(200), Num(486), NaN}] >>

DirectionColumns ==
  << [name |-> <<"s","t","a","r","t","_","t","i","m","e">>, kind |-> "text", dom |-> {T0}],
     [name |-> <<"C","a","l","l"," ","D","i","r","e","c","t","i","o","n">>, kind |-> "text", dom |-> {Str(<<"I","N">>), Str(<<"I","n","c","o","m","i","n","g">>), Str(<<"i","n">>), Str(<<"O","U","T">>), Str(<<"o","u","t","g","o","i","n","g">>), Str(<<"t","r","a","n","s","f","e","r">>), NaN}] >>

NoDirectionColumns ==
  << [name |-> <<"s","t","a","r","t","_","t","i","m","e">>, kind |-> "text", dom |-> {T0, Junk}],
     [name |-> <<"c","a","l","l","e","r">>, kind |-> "text", dom |-> {Str(<<"+","9","2","3","0","0","1","2","3","4","5","6","7">>), NaN}] >>

UnresolvedColumns ==
  << [name |-> <<"n","o","t","e","s">>, kind |-> "text", dom |-> {Str(<<"x">>), NaN}],
     [name |-> <<"i","d">>, kind |-> "num", dom |-> {Num(1), Num(2)}] >>

TalkTimeColumns ==
  << [name |-> <<"T","a","l","k"," ","T","i","m","e">>, kind |-> "num", dom |-> {Num(150), NaN}],
     [name |-> <<"d","i","r","e","c","t","i","o","n">>, kind |-> "text", dom |-> {Str(<<"i","n">>), Str(<<"T","r","a","n","s","f","e","r">>)}] >>

Families ==
  {TimeColumns, DurationColumns, BillSecColumns, StatusColumns, SipColumns, DirectionColumns, NoDirectionColumns, UnresolvedColumns, TalkTimeColumns}

(* Two time-like columns that are no alias of start_time, for the        *)
(* inference loop, in both column orders.                                *)
EventDate == <<"E","v","e","n","t"," ","D","a","t","e">>

LogTime == <<"l","o","g"," ","t","i","m","e">>

(* The header variants of the alias tables: raw header and the cell each  *)
(* row holds under it.                                                    *)
NameColumns ==
  { [name |-> <<"c","a","l","l","_","s","t","a","r","t">>, kind |-> "text", dom |-> {T0}],
    [name |-> <<"C","a","l","l"," ","S","t","a","r","t">>, kind |-> "text", dom |-> {T150}],
    [name |-> <<"t","i","m","e","s","t","a","m","p">>, kind |-> "text", dom |-> {DayOnly}],
    [name |-> <<" ","T","I","M","E","S","T","A","M","P">>, kind |-> "text", dom |-> {TBefore}],
    [name |-> <<"d","i","r","e","c","t","i","o","n">>, kind |-> "text", dom |-> {Str(<<"i","n">>)}],
    [name |-> <<"D","i","r","e","c","t","i","o","n"," ">>, kind |-> "text", dom |-> {Str(<<"O","U","T">>)}],
    [name |-> <<"C","a","l","l","i","n","g">>, kind |-> "text", dom |-> {Str(<<"B">>)}] }

(* the dtype a file reader gives a raw column: text is object, numbers are *)
(* int64, and a missing value among numbers (or nothing but missing       *)
(* values) makes the column float64                                       *)
raw_dtype(kind, cells) ==
  IF cells = <<>> THEN "object"
  ELSE IF \A i \in 1..Len(cells) : cells[i].k = "nan" THEN "float64"
  ELSE IF kind = "text" THEN "object"
  ELSE IF \E i \in 1..Len(cells) : cells[i].k = "nan" THEN "float64" ELSE "int64"

RawColumn(name, kind, cells) ==
  [name |-> name, dtype |-> raw_dtype(kind, cells), cells |-> cells]

ColumnsOf(c, n) == {RawColumn(c.name, c.kind, cells) : cells \in [1..n -> c.dom]}

(* every table of n rows over the columns of a family *)
RECURSIVE TablesOf(_, _)
TablesOf(f, n) ==
  IF f = <<>> THEN {<<>>}
  ELSE {<<c>> \o rest : c \in ColumnsOf(Head(f), n), rest \in TablesOf(Tail(f), n)}

FamilyTables ==
  UNION {{[n |-> n, cols |-> cols] : cols \in TablesOf(f, n)}
           : f \in Families, n \in 0..MaxRows}

Rep(c, n) == [i \in 1..n |-> c]

(* the columns of n cells with p parsable, u unparsable and the rest missing *)
PatternCells(n) ==
  UNION {{Rep(T0, p) \o Rep(Junk, u) \o Rep(NaN, n - p - u) : u \in 0..(n - p)}
           : p \in 0..n}

InferTables ==
  UNION {
    UNION {
      { [n |-> n, cols |-> << RawColumn(EventDate, "text", a),
                             RawColumn(LogTime, "text", b),
                             RawColumn(K_direction, "text", Rep(Str(<<"i","n">>), n)) >>],
        [n |-> n, cols |-> << RawColumn(LogTime, "text", b),
                             RawColumn(K_direction, "text", Rep(Str(<<"i","n">>), n)),
                             RawColumn(EventDate, "text", a) >>] }
      : a \in PatternCells(n), b \in PatternCells(n) }
    : n \in 0..InferRows }

(* the sequences of k distinct columns of S *)
RECURSIVE Arrangements(_, _)
Arrangements(S, k) ==
  IF k = 0 THEN {<<>>}
  ELSE UNION {{Append(s, x) : x \in {y \in S : \A i \in 1..Len(s) : s[i] # y}}
                : s \in Arrangements(S, k - 1)}

NameTables ==
  UNION {UNION {{[n |-> 1, cols |-> cols] : cols \in TablesOf(f, 1)}
                  : f \in Arrangements(NameColumns, k)}
           : k \in 1..MaxCols}

(* ---------------------------- specification --------------------------- *)

Init ==
  /\ df \in FamilyTables \cup InferTables \cup NameTables
  /\ canon = <<>>
  /\ out = EmptyTable
  /\ pc = "start"
  /\ pass = 1

Next == Resolve \/ Normalize \/ KeepValid \/ Again

Spec == Init /\ [][Next]_vars

(* ------------------------------ properties ---------------------------- *)

Fields(t, k) == Column(t, k).cells

Renamed == rename(df)

CandidatesOf(k) ==
  mapping_candidates[CHOOSE i \in 1..Len(mapping_candidates) :
                       mapping_candidates[i].k = k].candidates

AliasPresent(k) ==
  LET labels == Labels(Renamed)
      cands  == CandidatesOf(k)
  IN  \E j \in 1..Len(cands) : cands[j] \in labels

(* the cells of the input column that start_time was resolved to, parsed;  *)
(* nothing parses when start_time is unresolved                            *)
StartParsed ==
  IF K_start_time \in DOMAIN canon
  THEN LET src == Fields(Renamed, canon[K_start_time])
       IN  [i \in 1..df.n |-> to_datetime_cell(src[i])]
  ELSE [i \in 1..df.n |-> NaN]

(* the r-th smallest member of a set of row numbers *)
Nth(rows, r) == CHOOSE i \in rows : Cardinality({j \in rows : j <= i}) = r

CanonicalColumns ==
  {mapping_candidates[i].k : i \in 1..Len(mapping_candidates)}
    \cup {K_answered, K_failed, K_date, K_hour, K_weekday}

(* C1: the returned table has no more rows than the input; its rows are    *)
(* exactly the input rows whose start_time cell parsed, in order, each     *)
(* with a parsed (non-missing) start_time; and every canonical field was   *)
(* computed before the filter, so each column has exactly the kept rows.   *)
C1_RowDrop ==
  pc = "done" =>
    LET parsed == StartParsed
        kept   == {i \in 1..df.n : parsed[i].k = "time"}
        start_time == Fields(out, K_start_time)
    IN  /\ out.n <= df.n
        /\ out.n = Cardinality(kept)
        /\ \A r \in 1..out.n :
             /\ start_time[r].k = "time"
             /\ start_time[r] = parsed[Nth(kept, r)]
        /\ CanonicalColumns \subseteq Labels(out)
        /\ \A i \in 1..Len(out.cols) : Len(out.cols[i].cells) = out.n

(* C1 witness: a first pass that dropped some rows and kept others *)
C1_Witness ==
  pc = "done" /\ pass = 1 /\ out.n >= 1 /\ out.n < df.n

UniqueLabels ==
  \A i, j \in 1..Len(df.cols) :
    normalize_name(df.cols[i].name) = normalize_name(df.cols[j].name) => i = j

(* C3 (as claimed): whichever canonical fields are unresolved, the         *)
(* function does not raise, and an unresolved string identity field is     *)
(* missing in every returned row.                                          *)
C3_NeverRaises ==
  UniqueLabels =>
    /\ pc # "raised"
    /\ pc = "done" /\ pass = 1 =>
         \A i \in 1..Len(IdentityFields) :
           ~ AliasPresent(IdentityFields[i]) =>
             \A r \in 1..out.n : Fields(out, IdentityFields[i])[r] = NaN

(* the number of cells of the i-th input column that parse as timestamps *)
ParsedIn(i) ==
  Cardinality({r \in 1..df.n : to_datetime_cell(df.cols[i].cells[r]).k = "time"})

NonMissingIn(i) ==
  Cardinality({r \in 1..df.n : df.cols[i].cells[r].k # "nan"})

TimeLikeName(i) ==
  LET c == Renamed.cols[i].name
  IN  contains(c, <<"t","i","m","e">>) \/ contains(c, <<"d","a","t","e">>)

(* the i-th column qualifies when its name is time-like and more than 60%  *)
(* of `total` parse                                                        *)
QualifiesOver(i, total) == TimeLikeName(i) /\ ParsedIn(i) * 10 > 6 * total

(* the inference outcome that a qualification test Q(_) prescribes *)
InferredAs(Q(_)) ==
  LET qual == {i \in 1..Len(df.cols) : Q(i)}
  IN  IF qual = {}
      THEN /\ K_start_time \notin DOMAIN canon
           /\ pc = "done" => out.n = 0
      ELSE LET i == CHOOSE i \in qual : \A j \in qual : i <= j
           IN  /\ K_start_time \in DOMAIN canon
               /\ canon[K_start_time] = Renamed.cols[i].name
               /\ pc = "normalized" =>
                    Fields(out, K_start_time) = to_datetime(df.cols[i].cells)

InferenceRan ==
  pass = 1 /\ pc \in {"normalized", "done"} /\ ~ AliasPresent(K_start_time)

QualifiesOverNonMissing(i) == QualifiesOver(i, NonMissingIn(i))

QualifiesOverRows(i) == QualifiesOver(i, df.n)

(* C4 (as claimed): with no start_time alias, the inferred column is the   *)
(* first time-like column of which more than 60% of the non-missing values *)
(* parse; with none, start_time is unresolved and every row is dropped.    *)
C4_OverNonMissing == InferenceRan => InferredAs(QualifiesOverNonMissing)

(* C4 (amended): the same, the share being taken over all the rows of the  *)
(* column, missing values included.                                        *)
C4_OverRows == InferenceRan => InferredAs(QualifiesOverRows)

(* C4 witness: a table of at least five rows whose first time-like column  *)
(* parses at exactly 60% and is passed over for a later one                *)
C4_Witness ==
  /\ InferenceRan /\ pc = "done" /\ df.n >= 5
  /\ K_start_time \in DOMAIN canon
  /\ \E i \in 1..Len(df.cols) :
       /\ TimeLikeName(i) /\ ParsedIn(i) * 5 = 3 * df.n
       /\ Renamed.cols[i].name # canon[K_start_time]

Permuted(t, p) == [t EXCEPT !.cols = [i \in 1..Len(t.cols) |-> t.cols[p[i]]]]

S_call_start == <<"c","a","l","l","_","s","t","a","r","t">>

S_Call_Start == <<"C","a","l","l"," ","S","t","a","r","t">>

S_timestamp == <<"t","i","m","e","s","t","a","m","p">>

HasHeader(h) == \E i \in 1..Len(df.cols) : df.cols[i].name = h

(* C5: after the alias loop each canonical field is resolved to the        *)
(* earliest alias of its list that is a normalized label, and to nothing   *)
(* when none is; the result is the same for every order of the columns;    *)
(* and the header "Call Start" resolves like "call_start", ahead of        *)
(* "timestamp".                                                            *)
C5_AliasPriority ==
  pc = "resolved" /\ pass = 1 =>
    /\ LET labels == {replace_space(lower(strip(df.cols[i].name))) : i \in 1..Len(df.cols)}
       IN  \A m \in 1..Len(mapping_candidates) :
             LET k == mapping_candidates[m].k
                 cands == mapping_candidates[m].candidates
                 present == {j \in 1..Len(cands) : cands[j] \in labels}
             IN  IF present = {} THEN k \notin DOMAIN canon
                 ELSE /\ k \in DOMAIN canon
                      /\ canon[k] = cands[CHOOSE j \in present : \A x \in present : j <= x]
    /\ \A p \in Permutations(1..Len(df.cols)) :
         resolve(rename(Permuted(df, p))) = canon
    /\ (HasHeader(S_Call_Start) \/ HasHeader(S_call_start)) =>
         K_start_time \in DOMAIN canon /\ canon[K_start_time] = S_call_start

(* C5 witness: "timestamp" comes before "Call Start" in the input *)
C5_Witness ==
  /\ pc = "resolved" /\ pass = 1
  /\ \E i, j \in 1..Len(df.cols) :
       i < j /\ df.cols[i].name = S_timestamp /\ df.cols[j].name = S_Call_Start

(* some input row has an end_time that parses *)
EndAny ==
  /\ K_end_time \in DOMAIN canon
  /\ LET src == Fields(Renamed, canon[K_end_time])
     IN  \E i \in 1..df.n : to_datetime_cell(src[i]).k = "time"

(* C6: with no duration alias, when start_time and end_time both have a    *)
(* parsed value somewhere in the input, duration_sec of a returned row is  *)
(* end_time minus start_time in seconds where the row has both and missing *)
(* otherwise (2024-01-01T00:00:00 to 2024-01-01T00:02:30 is 150); when     *)
(* either has none, duration_sec is missing in every row.  With a duration *)
(* alias the column is read, whatever the timestamps.                      *)
C6_Duration ==
  pc = "done" /\ pass = 1 =>
    LET start_time == Fields(out, K_start_time)
        end_time   == Fields(out, K_end_time)
        dur        == Fields(out, K_duration_sec)
        parsed     == StartParsed
        both       == EndAny /\ \E i \in 1..df.n : parsed[i].k = "time"
    IN  IF AliasPresent(K_duration_sec)
        THEN canon[K_duration_sec] # K_duration_sec =>
               LET src == Fields(out, canon[K_duration_sec])
               IN  \A r \in 1..out.n : dur[r] = to_numeric_cell(src[r])
        ELSE \A r \in 1..out.n :
               IF both /\ start_time[r].k = "time" /\ end_time[r].k = "time"
               THEN /\ dur[r].k = "num"
                    /\ dur[r].v = end_time[r].v - start_time[r].v
                    /\ (start_time[r].v = 1704067200 /\ end_time[r].v = 1704067350)
                          => dur[r] = Num(150)
               ELSE dur[r] = NaN

(* C6 witness: a derived duration of 150 seconds beside a missing one *)
C6_Witness ==
  /\ pc = "done" /\ pass = 1 /\ ~ AliasPresent(K_duration_sec)
  /\ \E r \in 1..out.n : Fields(out, K_duration_sec)[r] = Num(150)
  /\ \E r \in 1..out.n : Fields(out, K_duration_sec)[r] = NaN

(* C7 (as claimed): the second pass returns the records of the first,      *)
(* field by field.                                                         *)
C7_Idempotent ==
  pc = "done" /\ pass = 2 =>
    /\ out.n = df.n
    /\ \A k \in CanonicalColumns : Fields(out, k) = Fields(df, k)

(* a string identity field that the first pass left unresolved: its column *)
(* is the float64 column np.nan gives (a resolved one is object)           *)
UnresolvedBefore(k) ==
  /\ \E i \in 1..Len(IdentityFields) : IdentityFields[i] = k
  /\ Column(df, k).dtype = "float64"

(* C7 (amended): the second pass completes and returns the records of the  *)
(* first, field by field, except that a string identity field unresolved   *)
(* in the first pass, missing in every row, comes back as the string "nan".*)
C7_IdempotentButNan ==
  pass = 2 =>
    /\ pc # "raised"
    /\ pc = "done" =>
         /\ out.n = df.n
         /\ \A k \in CanonicalColumns :
              IF UnresolvedBefore(k)
              THEN \A r \in 1..out.n :
                     /\ Fields(df, k)[r] = NaN
                     /\ Fields(out, k)[r] = Str(<<"n","a","n">>)
              ELSE Fields(out, k) = Fields(df, k)

(* C7 witness: a second pass over rows with a cleaned direction and an     *)
(* unresolved caller                                                       *)
C7_Witness ==
  /\ pc = "done" /\ pass = 2 /\ out.n >= 1
  /\ UnresolvedBefore(K_caller)
  /\ Fields(out, K_direction)[1] = Str(<<"i","n","b","o","u","n","d">>)

Synonyms ==
  { <<<<"i","n">>, <<"i","n","b","o","u","n","d">>>>, <<<<"o","u","t">>, <<"o","u","t","b","o","u","n","d">>>>,
    <<<<"i","n","c","o","m","i","n","g">>, <<"i","n","b","o","u","n","d">>>>, <<<<"o","u","t","g","o","i","n","g">>, <<"o","u","t","b","o","u","n","d">>>> }

(* the raw value of the direction column in input row i *)
RawDirection(i) == Fields(Renamed, canon[K_direction])[i]

(* C8: a direction value is lower-cased and, when the whole lower-cased    *)
(* value is in, out, incoming or outgoing, replaced by inbound or          *)
(* outbound; any other value is passed on lower-cased and otherwise        *)
(* unchanged ("IN", "Incoming", "in" give "inbound"; "transfer" stays).    *)
C8_Direction ==
  pc = "normalized" /\ pass = 1 =>
    \A i \in 1..df.n :
      LET raw == RawDirection(i)
          got == Fields(out, K_direction)[i]
          low == IF raw.k = "str" THEN lower(raw.v) ELSE <<>>
      IN  raw.k = "str" =>
            /\ got.k = "str"
            /\ \A s \in Synonyms : low = s[1] => got.v = s[2]
            /\ (\A s \in Synonyms : low # s[1]) => got.v = low
            /\ raw.v \in {<<"I","N">>, <<"I","n","c","o","m","i","n","g">>, <<"i","n">>} => got.v = <<"i","n","b","o","u","n","d">>
            /\ raw.v = <<"t","r","a","n","s","f","e","r">> => got.v = <<"t","r","a","n","s","f","e","r">>

(* C8 witness: one table holding "Incoming" and "transfer" *)
C8_Witness ==
  /\ pc = "normalized" /\ pass = 1
  /\ \E i, j \in 1..df.n :
       /\ RawDirection(i) = Str(<<"I","n","c","o","m","i","n","g">>)
       /\ Fields(out, K_direction)[i] = Str(<<"i","n","b","o","u","n","d">>)
       /\ RawDirection(j) = Str(<<"t","r","a","n","s","f","e","r">>)

(* C9 (as claimed): duration_sec of a returned record is missing or a      *)
(* non-negative number.                                                    *)
C9_NonNegative ==
  pc = "done" =>
    \A r \in 1..out.n :
      LET dur == Fields(out, K_duration_sec)[r]
      IN  dur = NaN \/ dur.v >= 0

(* C10 (as claimed): when two raw columns share the normalized name that a *)
(* canonical field resolves to, the function does not raise.               *)
C10_FirstColumnWins ==
  (pass = 1 /\ \E k \in DOMAIN canon : Count(Renamed, canon[k]) > 1)
    => pc # "raised"

====
